---- MODULE Spec2Model ----
(***************************************************************************)
(* Model of the message-dispatch pipeline of jci-connect:                  *)
(*   SendMessageUseCase.execute, the Supabase repositories it reads and    *)
(*   writes, the Email and WhatsApp adapters it calls, and the             *)
(*   /send-message endpoint that maps its outcome to an HTTP response      *)
(*   (Spec); the /preview-template endpoint and its use case               *)
(*   (SpecPreview); the phone number formatters (SpecPhone); the send      *)
(*   pipeline over a log store that already holds a row (SpecLogs); the    *)
(*   /test-email and /test-whatsapp endpoints (SpecDiag); the lazily       *)
(*   created Supabase client under concurrent requests (SpecClient).       *)
(*                                                                         *)
(* Encoding of Python values:                                              *)
(*   Optional[X]  : a sequence of length <= 1; None is << >>, x is <<x>>.  *)
(*   str (text)   : a sequence of tokens [k, v]; k = "lit" is literal      *)
(*                  text, k = "var" is a Jinja2 placeholder {{ v }},       *)
(*                  k = "bad" is malformed Jinja2 syntax.                  *)
(*   str (phone)  : a sequence of one-character strings.                   *)
(*   dict         : a function from keys to values; {} has empty DOMAIN.   *)
(*   exception    : a class name; IsInstance gives the class hierarchy.    *)
(***************************************************************************)
EXTENDS Integers, Sequences, FiniteSets, TLC

\* ---------------------------------------------------------------- bounds
MaxCalls == 1

MaxPreviews == 2

\* longest digit string given to the phone formatter
MaxDigits == 12

MaxDiagCalls == 2

\* calls of get_supabase_client per thread
MaxClientCalls == 2

\* ------------------------------------------------------- Python encoding
None == << >>

Some(x) == << x >>

Get(d, key, default) == IF key \in DOMAIN d THEN d[key] ELSE default

EmptyDict == [x \in {} |-> ""]

\* `if s` for an Optional[str] held as an atom string
TruthyStr(o) == o /= None /\ o[1] /= ""

\* `if s` for an Optional[str] held as a token or character sequence
TruthySeq(o) == o /= None /\ o[1] /= << >>

\* `if d` for an Optional[dict]
TruthyDict(o) == o /= None /\ DOMAIN o[1] /= {}

Lit(s) == [k |-> "lit", v |-> s]

Var(n) == [k |-> "var", v |-> n]

Bad == [k |-> "bad", v |-> ""]

\* Outcome of a call that may raise: the returned value, or the class raised
Ok(v) == [raise |-> "", val |-> v]

Raise(cls) == [raise |-> cls, val |-> << >>]

IsRaise(r) == r.raise /= ""

\* classes derived from BaseException only, which `except Exception` misses
BaseExceptionOnly == {"CancelledError", "KeyboardInterrupt"}

\* subclass relation of the exception classes that occur
IsInstance(cls, base) ==
    \/ cls = base
    \/ base = "Exception" /\ cls \notin BaseExceptionOnly
    \/ base = "DomainException"
         /\ cls \in {"TemplateNotFoundError", "ConfigurationNotFoundError",
                     "MessageSendError", "InvalidTemplateTypeError"}
    \/ base = "ValueError" /\ cls \in {"ValidationError", "JSONDecodeError"}

\* ----------------------------------------------------------- enumerations
MessageStatus_PENDING == "pending"

MessageStatus_SENT == "sent"

MessageStatus_FAILED == "failed"

MessageStatus_DELIVERED == "delivered"

TemplateTypeValues == {"email", "whatsapp"}

DefaultSubject == << Lit("Message from JCI Connect") >>


\* ------------------------------------------------------- Template renderer
\* jinja2 Template(content).render(**variables); every exception is
\* re-raised as ValueError.  A placeholder whose variable is not supplied
\* renders as empty text (jinja2's default Undefined).
render_template(template_content, variables) ==
    IF \E i \in 1..Len(template_content) : template_content[i].k = "bad"
    THEN Raise("ValueError")
    ELSE Ok([i \in 1..Len(template_content) |->
               IF template_content[i].k = "var"
               THEN Lit(Get(variables, template_content[i].v, ""))
               ELSE template_content[i]])

\* ---------------------------------------------------------- value objects
SMTPRequired == {"host", "username", "password", "from_email", "from_name"}

\* SMTPConfig(**email_config): pydantic rejects a mapping that lacks a
\* required field; port and use_tls have defaults.
SMTPConfig(email_config) ==
    IF SMTPRequired \subseteq DOMAIN email_config
    THEN Ok([host |-> email_config["host"],
             port |-> Get(email_config, "port", 587),
             username |-> email_config["username"],
             password |-> email_config["password"],
             use_tls |-> Get(email_config, "use_tls", TRUE),
             from_email |-> email_config["from_email"],
             from_name |-> email_config["from_name"]])
    ELSE Raise("ValidationError")

WhatsAppRequired == {"api_url", "api_key", "instance_name"}

WhatsAppConfig(whatsapp_config) ==
    IF WhatsAppRequired \subseteq DOMAIN whatsapp_config
    THEN Ok([api_url |-> whatsapp_config["api_url"],
             api_key |-> whatsapp_config["api_key"],
             instance_name |-> whatsapp_config["instance_name"],
             webhook_url |-> Get(whatsapp_config, "webhook_url", "")])
    ELSE Raise("ValidationError")

\* ----------------------------------------------------------- Email adapter
\* Outcomes of aiosmtplib.send
SmtpOutcomes == {"ok", "error"}

\* The try block of EmailAdapter.send with a guard that tests the host only.
EmailAdapter_try_HostOnly(recipient, content, subject, variables, config, smtp) ==
    IF config.host = ""
    THEN [out |-> Ok([success |-> FALSE,
                      error |-> "SMTP configuration incomplete",
                      status |-> MessageStatus_FAILED]),
          subject |-> subject, wire |-> None]
    ELSE
      LET rc == IF DOMAIN variables /= {}
                THEN render_template(content, variables) ELSE Ok(content)
          rs == IF DOMAIN variables /= {} /\ TruthySeq(subject)
                THEN render_template(subject[1], variables) ELSE Ok(<< >>)
          s == IF DOMAIN variables /= {}
               THEN IF TruthySeq(subject) THEN Some(rs.val) ELSE None
               ELSE subject
          message == [channel |-> "smtp",
                      to |-> recipient,
                      subject |-> IF TruthySeq(s) THEN s[1]
                                  ELSE DefaultSubject,
                      body |-> rc.val]
      IN IF IsRaise(rc)
         THEN [out |-> rc, subject |-> subject, wire |-> None]
         ELSE IF IsRaise(rs)
         THEN [out |-> rs, subject |-> subject, wire |-> None]
         ELSE IF smtp = "ok"
         THEN [out |-> Ok([success |-> TRUE,
                           message |-> "Email sent successfully",
                           status |-> MessageStatus_SENT,
                           recipient |-> recipient,
                           subject |-> s]),
               subject |-> s, wire |-> Some(message)]
         ELSE [out |-> Raise("SMTPException"),
               subject |-> s, wire |-> Some(message)]

\* The body of the try block of EmailAdapter.send.  Returns the dict that a
\* return statement produced, or out = Raise(cls) with the binding of
\* `subject` at the time the exception was raised; wire is the message
\* handed to the SMTP server, None when no connection was attempted.
EmailAdapter_try(recipient, content, subject, variables, config, smtp) ==
    IF config.host = "" \/ config.username = ""
    THEN [out |-> Ok([success |-> FALSE,
                      error |-> "SMTP configuration incomplete",
                      status |-> MessageStatus_FAILED]),
          subject |-> subject, wire |-> None]
    ELSE
      LET rc == IF DOMAIN variables /= {}
                THEN render_template(content, variables) ELSE Ok(content)
          rs == IF DOMAIN variables /= {} /\ TruthySeq(subject)
                THEN render_template(subject[1], variables) ELSE Ok(<< >>)
          s == IF DOMAIN variables /= {}
               THEN IF TruthySeq(subject) THEN Some(rs.val) ELSE None
               ELSE subject
          message == [channel |-> "smtp",
                      to |-> recipient,
                      subject |-> IF TruthySeq(s) THEN s[1]
                                  ELSE DefaultSubject,
                      body |-> rc.val]
      IN IF IsRaise(rc)
         THEN [out |-> rc, subject |-> subject, wire |-> None]
         ELSE IF IsRaise(rs)
         THEN [out |-> rs, subject |-> subject, wire |-> None]
         ELSE IF smtp = "ok"
         THEN [out |-> Ok([success |-> TRUE,
                           message |-> "Email sent successfully",
                           status |-> MessageStatus_SENT,
                           recipient |-> recipient,
                           subject |-> s]),
               subject |-> s, wire |-> Some(message)]
         ELSE [out |-> Raise("SMTPException"),
               subject |-> s, wire |-> Some(message)]

\* EmailAdapter.send with a handler that catches the SMTP errors only.
EmailAdapter_send_SmtpOnly(recipient, content, subject, variables, config, smtp) ==
    LET t == EmailAdapter_try(recipient, content, subject, variables,
                              config, smtp)
    IN IF IsRaise(t.out) /\ IsInstance(t.out.raise, "SMTPException")
       THEN [result |-> Ok([success |-> FALSE,
                            error |-> t.out.raise,
                            status |-> MessageStatus_FAILED,
                            recipient |-> recipient,
                            subject |-> t.subject]),
             wire |-> t.wire]
       ELSE [result |-> t.out, wire |-> t.wire]

\* EmailAdapter.send: the try block and its `except Exception` handler.
EmailAdapter_send(recipient, content, subject, variables, config, smtp) ==
    LET t == EmailAdapter_try(recipient, content, subject, variables,
                              config, smtp)
    IN IF IsRaise(t.out) /\ IsInstance(t.out.raise, "Exception")
       THEN [result |-> Ok([success |-> FALSE,
                            error |-> t.out.raise,
                            status |-> MessageStatus_FAILED,
                            recipient |-> recipient,
                            subject |-> t.subject]),
             wire |-> t.wire]
       ELSE [result |-> t.out, wire |-> t.wire]

\* -------------------------------------------------------- WhatsApp adapter
Digits == {"0", "1", "2", "3", "4", "5", "6", "7", "8", "9"}

IsDigit(c) == c \in Digits

\* _format_phone_number that leaves a 10-digit number without country code.
_format_phone_number_NoCountryCode(phone_number) ==
    LET digits_only == SelectSeq(phone_number, IsDigit)
    IN IF Len(digits_only) < 10 THEN Raise("ValueError")
       ELSE Ok(digits_only)

\* _format_phone_number without the `len(digits_only) < 10` branch.
_format_phone_number_NoLengthCheck(phone_number) ==
    LET digits_only == SelectSeq(phone_number, IsDigit)
    IN IF Len(digits_only) = 10 THEN Ok(<< "1" >> \o digits_only)
       ELSE Ok(digits_only)

\* WhatsAppAdapter._format_phone_number
_format_phone_number(phone) ==
    LET digits_only == SelectSeq(phone, IsDigit)
    IN IF Len(digits_only) = 10 THEN Ok(<< "1" >> \o digits_only)
       ELSE IF Len(digits_only) = 11 /\ digits_only[1] = "1"
       THEN Ok(digits_only)
       ELSE IF Len(digits_only) < 10 THEN Raise("ValueError")
       ELSE Ok(digits_only)

\* WhatsAppService._format_phone_number (services/whatsapp_service.py)
WhatsAppService_format_phone_number(phone_number) ==
    LET digits_only == SelectSeq(phone_number, IsDigit)
    IN IF Len(digits_only) = 10 THEN Ok(<< "1" >> \o digits_only)
       ELSE IF Len(digits_only) = 11 /\ digits_only[1] = "1"
       THEN Ok(digits_only)
       ELSE IF Len(digits_only) < 10 THEN Raise("ValueError")
       ELSE Ok(digits_only)

\* Outcomes of the POST to the Evolution API: 200 with a JSON body, 200 with
\* a body response.json() cannot parse, another status, a network error.
HttpOutcomes == {"200", "200_not_json", "500", "network_error"}

\* The body of the try block of WhatsAppAdapter.send; wire is the payload
\* POSTed to the provider, None when no request was attempted.
\* WhatsAppAdapter.send body that renders the content whatever the variables.
WhatsAppAdapter_try_AlwaysRender(recipient, content, subject, variables, config, http) ==
    IF config.api_url = "" \/ config.api_key = "" \/ config.instance_name = ""
    THEN [out |-> Ok([success |-> FALSE,
                      error |-> "WhatsApp configuration incomplete",
                      status |-> MessageStatus_FAILED]),
          wire |-> None]
    ELSE
      LET formatted_phone == _format_phone_number(recipient)
          rc == render_template(content, variables)
          payload == [channel |-> "http",
                      number |-> formatted_phone.val,
                      body |-> rc.val]
      IN IF IsRaise(formatted_phone)
         THEN [out |-> formatted_phone, wire |-> None]
         ELSE IF IsRaise(rc)
         THEN [out |-> rc, wire |-> None]
         ELSE CASE http = "200" ->
                     [out |-> Ok([success |-> TRUE,
                                  message |-> "WhatsApp message sent successfully",
                                  status |-> MessageStatus_SENT,
                                  recipient |-> formatted_phone.val,
                                  message_id |-> "key.id"]),
                      wire |-> Some(payload)]
                [] http = "200_not_json" ->
                     [out |-> Raise("JSONDecodeError"),
                      wire |-> Some(payload)]
                [] http = "500" ->
                     [out |-> Ok([success |-> FALSE,
                                  error |-> "Evolution API error",
                                  status |-> MessageStatus_FAILED,
                                  recipient |-> formatted_phone.val]),
                      wire |-> Some(payload)]
                [] OTHER ->
                     [out |-> Raise("ConnectError"),
                      wire |-> Some(payload)]

WhatsAppAdapter_try(recipient, content, subject, variables, config, http) ==
    IF config.api_url = "" \/ config.api_key = "" \/ config.instance_name = ""
    THEN [out |-> Ok([success |-> FALSE,
                      error |-> "WhatsApp configuration incomplete",
                      status |-> MessageStatus_FAILED]),
          wire |-> None]
    ELSE
      LET formatted_phone == _format_phone_number(recipient)
          rc == IF DOMAIN variables /= {}
                THEN render_template(content, variables) ELSE Ok(content)
          payload == [channel |-> "http",
                      number |-> formatted_phone.val,
                      body |-> rc.val]
      IN IF IsRaise(formatted_phone)
         THEN [out |-> formatted_phone, wire |-> None]
         ELSE IF IsRaise(rc)
         THEN [out |-> rc, wire |-> None]
         ELSE CASE http = "200" ->
                     [out |-> Ok([success |-> TRUE,
                                  message |-> "WhatsApp message sent successfully",
                                  status |-> MessageStatus_SENT,
                                  recipient |-> formatted_phone.val,
                                  message_id |-> "key.id"]),
                      wire |-> Some(payload)]
                [] http = "200_not_json" ->
                     [out |-> Raise("JSONDecodeError"),
                      wire |-> Some(payload)]
                [] http = "500" ->
                     [out |-> Ok([success |-> FALSE,
                                  error |-> "Evolution API error",
                                  status |-> MessageStatus_FAILED,
                                  recipient |-> formatted_phone.val]),
                      wire |-> Some(payload)]
                [] OTHER ->
                     [out |-> Raise("ConnectError"),
                      wire |-> Some(payload)]

\* WhatsAppAdapter.send with a handler that catches the HTTP errors only.
WhatsAppAdapter_send_HttpErrorsOnly(recipient, content, subject, variables, config, http) ==
    LET t == WhatsAppAdapter_try(recipient, content, subject, variables,
                                 config, http)
    IN IF IsRaise(t.out) /\ t.out.raise \in {"ConnectError", "JSONDecodeError"}
       THEN [result |-> Ok([success |-> FALSE,
                            error |-> t.out.raise,
                            status |-> MessageStatus_FAILED,
                            recipient |-> recipient]),
             wire |-> t.wire]
       ELSE [result |-> t.out, wire |-> t.wire]

\* WhatsAppAdapter.send that reports an accepted message as delivered.
WhatsAppAdapter_send_Delivered(recipient, content, subject, variables, config, http) ==
    LET t == WhatsAppAdapter_try(recipient, content, subject, variables,
                                 config, http)
    IN IF IsRaise(t.out) /\ IsInstance(t.out.raise, "Exception")
       THEN [result |-> Ok([success |-> FALSE,
                            error |-> t.out.raise,
                            status |-> MessageStatus_FAILED,
                            recipient |-> recipient]),
             wire |-> t.wire]
       ELSE IF ~IsRaise(t.out) /\ t.out.val.success
       THEN [result |-> Ok([t.out.val EXCEPT
                              !.status = MessageStatus_DELIVERED]),
             wire |-> t.wire]
       ELSE [result |-> t.out, wire |-> t.wire]

\* WhatsAppAdapter.send: the try block and its `except Exception` handler.
WhatsAppAdapter_send(recipient, content, subject, variables, config, http) ==
    LET t == WhatsAppAdapter_try(recipient, content, subject, variables,
                                 config, http)
    IN IF IsRaise(t.out) /\ IsInstance(t.out.raise, "Exception")
       THEN [result |-> Ok([success |-> FALSE,
                            error |-> t.out.raise,
                            status |-> MessageStatus_FAILED,
                            recipient |-> recipient]),
             wire |-> t.wire]
       ELSE [result |-> t.out, wire |-> t.wire]

\* ------------------------------------------------- connection diagnostics
\* Outcomes of connect / login / quit against the SMTP server
SmtpConnectOutcomes == {"ok", "connect_error", "login_error"}

\* EmailAdapter.test_connection
EmailAdapter_test_connection(config, smtp) ==
    IF smtp = "ok"
    THEN [success |-> TRUE,
          message |-> "SMTP connection successful",
          host |-> config.host,
          port |-> config.port]
    ELSE [success |-> FALSE,
          error |-> smtp,
          host |-> config.host,
          port |-> config.port]

\* Outcomes of the GET of the instance state: 200 with state open, 200 with
\* another state, 200 with an unparsable body, another status, network error
StatusOutcomes == {"200_open", "200_close", "200_not_json", "500",
                   "network_error"}

\* WhatsAppAdapter.get_instance_status
WhatsAppAdapter_get_instance_status(config, http) ==
    IF config.api_url = "" \/ config.instance_name = ""
    THEN [success |-> FALSE, error |-> "WhatsApp configuration incomplete"]
    ELSE CASE http \in {"200_open", "200_close"} ->
                [success |-> TRUE,
                 instance_name |-> config.instance_name,
                 status |-> IF http = "200_open" THEN "open" ELSE "close",
                 connected |-> (http = "200_open")]
           [] http = "500" ->
                [success |-> FALSE,
                 error |-> "Failed to get instance status",
                 instance_name |-> config.instance_name]
           [] http = "200_not_json" ->
                [success |-> FALSE,
                 error |-> "JSONDecodeError",
                 instance_name |-> config.instance_name]
           [] OTHER ->
                [success |-> FALSE,
                 error |-> "ConnectError",
                 instance_name |-> config.instance_name]

\* WhatsAppAdapter.test_connection
WhatsAppAdapter_test_connection(config, http) ==
    LET status_result == WhatsAppAdapter_get_instance_status(config, http)
    IN IF Get(status_result, "success", FALSE)
       THEN [success |-> TRUE,
             message |-> "WhatsApp connection successful",
             instance_name |-> config.instance_name,
             status |-> status_result.status,
             connected |-> Get(status_result, "connected", FALSE)]
       ELSE [success |-> FALSE,
             error |-> Get(status_result, "error", "Connection test failed"),
             instance_name |-> config.instance_name]

\* ------------------------------------------------------ Supabase adapters
\* Outcomes of a read through the Supabase client
DbOutcomes == {"ok", "error"}

\* get_by_id with the .eq("id", template_id) filter left out: the first row
\* of the table is returned whatever the id.
get_by_id_NoIdFilter(table, template_id, db) ==
    IF db = "error" THEN None
    ELSE LET data == table["t_email"]
         IN Some([id |-> "t_email",
                  type |-> data.type,
                  subject |-> data.subject,
                  content |-> data.content])

\* SupabaseTemplateRepository.get_by_id: no row, a store error, or a row
\* whose type TemplateType() rejects all end in `return None`.
get_by_id(table, template_id, db) ==
    IF db = "error" THEN None
    ELSE IF template_id \notin DOMAIN table THEN None
    ELSE LET data == table[template_id]
         IN IF data.type \notin TemplateTypeValues THEN None
            ELSE Some([id |-> template_id,
                       type |-> data.type,
                       subject |-> data.subject,
                       content |-> data.content])

\* SupabaseOrganizationSettingsRepository.get_settings
get_settings(table, db) ==
    IF db = "error" THEN None
    ELSE IF Len(table) = 0 THEN None
    ELSE Some([email_config |-> table[1].email_config,
               whatsapp_config |-> table[1].whatsapp_config])

\* SupabaseOrganizationSettingsRepository.get_email_config
get_email_config(table, db) ==
    LET s == get_settings(table, db)
    IN IF s /= None THEN s[1].email_config ELSE None

\* SupabaseOrganizationSettingsRepository.get_whatsapp_config
get_whatsapp_config(table, db) ==
    LET s == get_settings(table, db)
    IN IF s /= None THEN s[1].whatsapp_config ELSE None

\* Outcomes of SupabaseMessageLogRepository.create: the insert succeeds and
\* the returned row parses; the insert raises; the insert succeeds but
\* building the MessageLog from the returned row raises ValueError
\* (datetime.fromisoformat, MessageType(), MessageStatus(), pydantic).
CreateOutcomes == {"ok", "insert_error", "row_error"}

\* create that builds its result without inserting the row.
MessageLog_create_NoInsert(table, message_log, outcome) ==
    CASE outcome = "insert_error" ->
           [table |-> table, out |-> Raise("APIError")]
      [] outcome = "row_error" ->
           [table |-> table, out |-> Raise("ValueError")]
      [] OTHER ->
           [table |-> table, out |-> Ok(message_log)]

\* create that overwrites the newest row of the table when there is one.
MessageLog_create_Upsert(table, message_log, outcome) ==
    LET rows == IF Len(table) = 0 THEN << message_log >>
                ELSE [table EXCEPT ![Len(table)] = message_log]
    IN CASE outcome = "insert_error" ->
              [table |-> table, out |-> Raise("APIError")]
         [] outcome = "row_error" ->
              [table |-> rows, out |-> Raise("ValueError")]
         [] OTHER ->
              [table |-> rows, out |-> Ok(message_log)]

\* SupabaseMessageLogRepository.create: the table afterwards and the result.
MessageLog_create(table, message_log, outcome) ==
    LET data == [message_log EXCEPT
                   !.status = IF @ = "MessageStatus.FAILED"
                              THEN MessageStatus_FAILED ELSE @]
    IN CASE outcome = "insert_error" ->
              [table |-> table, out |-> Raise("APIError")]
         [] outcome = "row_error" ->
              [table |-> Append(table, data), out |-> Raise("ValueError")]
         [] OTHER ->
              [table |-> Append(table, data), out |-> Ok(data)]

\* ---------------------------------------------- PreviewTemplateUseCase
\* PreviewTemplateUseCase.execute: the dict returned, or the class raised.
PreviewTemplateUseCase_execute(table, template_id, variables, db) ==
    LET vs == IF variables = None THEN EmptyDict ELSE variables[1]
        t == get_by_id(table, template_id, db)
    IN IF t = None THEN Raise("TemplateNotFoundError")
       ELSE LET rendered_content == render_template(t[1].content, vs)
                rendered_subject ==
                  IF TruthySeq(t[1].subject)
                  THEN render_template(t[1].subject[1], vs)
                  ELSE Ok(<< >>)
            IN IF IsRaise(rendered_content) THEN rendered_content
               ELSE IF IsRaise(rendered_subject) THEN rendered_subject
               ELSE Ok([template_id |-> template_id,
                        content |-> rendered_content.val,
                        subject |-> IF TruthySeq(t[1].subject)
                                    THEN Some(rendered_subject.val)
                                    ELSE None,
                        variables_used |-> vs])

\* ------------------------------------------------------------- API layer
\* preview_template (interfaces/api): the status code of the HTTPException
\* an exception class is answered with.
preview_template_handler(cls) ==
    IF IsInstance(cls, "TemplateNotFoundError") THEN 404
    ELSE IF IsInstance(cls, "ValueError") THEN 400
    ELSE 500

\* send_message (interfaces/api): the except clause an exception class
\* selects and the status code of the HTTPException it raises.
send_message_handler(cls) ==
    IF \/ IsInstance(cls, "TemplateNotFoundError")
       \/ IsInstance(cls, "ConfigurationNotFoundError")
       \/ IsInstance(cls, "InvalidTemplateTypeError")
    THEN [handler |-> "domain",
          status_code |-> IF \/ IsInstance(cls, "TemplateNotFoundError")
                             \/ IsInstance(cls, "ConfigurationNotFoundError")
                          THEN 404 ELSE 400]
    ELSE IF IsInstance(cls, "MessageSendError")
    THEN [handler |-> "send_error", status_code |-> 500]
    ELSE IF IsInstance(cls, "ValueError")
    THEN [handler |-> "validation", status_code |-> 400]
    ELSE [handler |-> "unexpected", status_code |-> 500]

\* ------------------------------------------------------------------ state
VARIABLES
    message_templates,      \* table message_templates: id -> row
    organization_settings,  \* table organization_settings: sequence of rows
    message_logs,           \* table message_logs: sequence of rows
    pc,                     \* position of the request in execute
    req,                    \* arguments of the current execute call
    template,               \* execute: template
    settings,               \* execute: settings
    config,                 \* execute: smtp_config / wa_config
    result,                 \* execute: result
    message_log,            \* execute: message_log
    exc,                    \* exception class execute raised, "" if none
    response,               \* what the endpoint answered
    wire,                   \* message handed to the provider in this call
    calls,                  \* execute calls started
    sendCount,              \* transport send invocations, all calls
    callSends,              \* transport send invocations, this call
    logsBefore,             \* Len(message_logs) when this call started
    createCalls,            \* log store create invocations, this call
    createOutcome,          \* outcome of the log store create, this call
    createFailures,         \* log store inserts that raised, all calls
    transportOutcome,       \* what the provider did in this call
    previews,               \* preview-template requests answered so far
    phone,                  \* a recipient phone number as typed
    adapter_phone,          \* WhatsAppAdapter._format_phone_number(phone)
    service_phone,          \* WhatsAppService._format_phone_number(phone)
    diag,                   \* what the diagnostic endpoint calls so far did
    _supabase_client,       \* utils/database.py: the module global
    clientPc,               \* thread -> its position in get_supabase_client
    clientCalls,            \* thread -> calls of get_supabase_client started
    created,                \* create_client runs that returned a client
    handedOut               \* the clients get_supabase_client has returned

vars == << message_templates, organization_settings, message_logs, pc, req,
           template, settings, config, result, message_log, exc, response,
           wire, calls, sendCount, callSends, logsBefore, createCalls,
           createOutcome, createFailures, transportOutcome, previews,
           phone, adapter_phone, service_phone, diag, _supabase_client,
           clientPc, clientCalls, created, handedOut >>

clients == << _supabase_client, clientPc, clientCalls, created, handedOut >>

diags == << diag >>

phones == << phone, adapter_phone, service_phone >>

stores == << message_templates, organization_settings >>

\* ----------------------------------------------------------------- inputs
\* request threads of the server: the endpoints of api/communication.py take
\* the client as Depends(get_supabase_client), a sync dependency, which the
\* framework runs in its thread pool
Threads == {"t1", "t2"}

HelloName == << Lit("Hello "), Var("name") >>

TemplateRows ==
    [t_email |-> [type |-> "email",
                  subject |-> Some(<< Lit("Hi "), Var("name") >>),
                  content |-> HelloName],
     t_wa    |-> [type |-> "whatsapp",
                  subject |-> None,
                  content |-> HelloName],
     t_wa_subject |-> [type |-> "whatsapp",
                       subject |-> Some(<< Lit("Hi "), Var("name") >>),
                       content |-> HelloName],
     t_sms   |-> [type |-> "sms",
                  subject |-> None,
                  content |-> HelloName],
     t_bad   |-> [type |-> "email",
                  subject |-> None,
                  content |-> << Lit("Hello "), Bad >>]]

TemplateIds == DOMAIN TemplateRows \cup {"t_none"}

EmailComplete ==
    [host |-> "smtp.example.org", username |-> "user", password |-> "pw",
     from_email |-> "jci@example.org", from_name |-> "JCI"]

WhatsAppComplete ==
    [api_url |-> "https://evo.example.org", api_key |-> "key",
     instance_name |-> "jci"]

\* States of the organization_settings table: no row, or one row.
SettingsRows ==
    { [email_config |-> Some(EmailComplete),
       whatsapp_config |-> Some(WhatsAppComplete)],
      [email_config |-> None, whatsapp_config |-> None],
      [email_config |-> Some(EmptyDict), whatsapp_config |-> Some(EmptyDict)],
      [email_config |-> Some([EmailComplete EXCEPT !.host = ""]),
       whatsapp_config |-> Some([WhatsAppComplete EXCEPT !.api_key = ""])],
      [email_config |-> Some([EmailComplete EXCEPT !.username = ""]),
       whatsapp_config |-> Some([WhatsAppComplete EXCEPT !.api_url = ""])],
      [email_config |-> Some([EmailComplete EXCEPT !.password = ""]),
       whatsapp_config |-> Some([WhatsAppComplete EXCEPT !.instance_name = ""])],
      [email_config |-> Some([host |-> "smtp.example.org"]),
       whatsapp_config |-> Some([api_url |-> "https://evo.example.org"])] }

SettingsTables == { << >> } \cup { << r >> : r \in SettingsRows }

EmailRecipients == { None, Some(""), Some("ana@example.org") }

TenDigits == << "5", "5", "5", "-", "1", "2", "3", "4", "5", "6", "7" >>

PhoneRecipients == { None, Some(<< >>), Some(<< "1", "2", "3" >>),
                     Some(TenDigits) }

\* the variables argument: not given, {} or a mapping
VariableSets == { None, Some(EmptyDict), Some([name |-> "Ana"]) }

Requests ==
    [template_id : TemplateIds, recipient_email : EmailRecipients,
     recipient_phone : PhoneRecipients, variables : VariableSets]

NoRequest ==
    [template_id |-> "", recipient_email |-> None, recipient_phone |-> None,
     variables |-> EmptyDict]

NoResponse == [handler |-> "", status_code |-> 0, success |-> FALSE]

\* ------------------------------------------------------------------- Init
\* no request has been received yet
InitRequest ==
    /\ diag = << >>
    /\ _supabase_client = None
    /\ clientPc = [t \in Threads |-> "idle"]
    /\ clientCalls = [t \in Threads |-> 0]
    /\ created = 0
    /\ handedOut = {}
    /\ pc = "idle"
    /\ req = NoRequest
    /\ template = None
    /\ settings = None
    /\ config = None
    /\ result = None
    /\ message_log = None
    /\ exc = ""
    /\ response = NoResponse
    /\ wire = None
    /\ calls = 0
    /\ sendCount = 0
    /\ callSends = 0
    /\ logsBefore = 0
    /\ createCalls = 0
    /\ createOutcome = ""
    /\ createFailures = 0
    /\ transportOutcome = ""
    /\ previews = << >>

Init ==
    /\ message_templates = TemplateRows
    /\ organization_settings \in SettingsTables
    /\ message_logs = << >>
    /\ InitRequest
    /\ phone = << >>
    /\ adapter_phone = None
    /\ service_phone = None

\* ---------------------------------------------- SendMessageUseCase.execute
\* `raise cls` out of execute
RaiseOut(cls) == pc' = "raised" /\ exc' = cls

\* execute is entered: variables defaults to {}, the template fetch starts.
Execute ==
    /\ pc = "idle"
    /\ calls < MaxCalls
    /\ \E r \in Requests :
         req' = [r EXCEPT !.variables = IF @ = None THEN EmptyDict ELSE @[1]]
    /\ calls' = calls + 1
    /\ pc' = "get_template"
    /\ exc' = ""
    /\ response' = NoResponse
    /\ callSends' = 0
    /\ createCalls' = 0
    /\ createOutcome' = ""
    /\ logsBefore' = Len(message_logs)
    /\ transportOutcome' = ""
    /\ UNCHANGED << stores, phones, diags, clients, previews,
                    message_logs, sendCount, template, settings,
                    config, result, message_log, wire, createFailures >>

\* execute that leaves a failed row in the log when the template is missing.
TemplateFetched_LogsNotFound ==
    /\ pc = "get_template"
    /\ \E db \in DbOutcomes :
         LET t == get_by_id(message_templates, req.template_id, db)
         IN /\ template' = t
            /\ IF t = None
               THEN /\ RaiseOut("TemplateNotFoundError")
                    /\ message_logs' = Append(message_logs,
                           [template_id |-> req.template_id,
                            status |-> MessageStatus_FAILED])
               ELSE /\ pc' = "get_settings"
                    /\ exc' = exc
                    /\ UNCHANGED message_logs
    /\ UNCHANGED << stores, phones, diags, clients, previews,
                    req, settings, config, result,
                    message_log, response, wire, calls, sendCount, callSends,
                    logsBefore, createCalls, createOutcome, createFailures,
                    transportOutcome >>

\* template_repository.get_by_id returns; `if not template: raise`.
TemplateFetched ==
    /\ pc = "get_template"
    /\ \E db \in DbOutcomes :
         LET t == get_by_id(message_templates, req.template_id, db)
         IN /\ template' = t
            /\ IF t = None
               THEN RaiseOut("TemplateNotFoundError")
               ELSE pc' = "get_settings" /\ exc' = exc
    /\ UNCHANGED << stores, phones, diags, clients, previews,
                    message_logs, req, settings, config, result,
                    message_log, response, wire, calls, sendCount, callSends,
                    logsBefore, createCalls, createOutcome, createFailures,
                    transportOutcome >>

\* the recipient the fetched template's channel requires was not given
RecipientAbsent ==
    IF template[1].type = "email" THEN ~TruthyStr(req.recipient_email)
    ELSE ~TruthySeq(req.recipient_phone)

\* execute with the branch on the channel and its recipient check ahead of
\* the settings check.
SettingsFetched_RecipientFirst ==
    /\ pc = "get_settings"
    /\ \E db \in DbOutcomes :
         LET s == get_settings(organization_settings, db)
         IN /\ settings' = s
            /\ IF template[1].type \notin TemplateTypeValues
               THEN RaiseOut("InvalidTemplateTypeError")
               ELSE IF RecipientAbsent
               THEN RaiseOut("ValueError")
               ELSE IF s = None
               THEN RaiseOut("ConfigurationNotFoundError")
               ELSE pc' = "get_config" /\ exc' = exc
    /\ UNCHANGED << stores, phones, diags, clients, previews,
                    message_logs, req, template, config, result,
                    message_log, response, wire, calls, sendCount, callSends,
                    logsBefore, createCalls, createOutcome, createFailures,
                    transportOutcome >>

\* get_settings returns; `if not settings: raise`; then the branch on
\* template.type.value and the recipient check of the branch taken.
SettingsFetched ==
    /\ pc = "get_settings"
    /\ \E db \in DbOutcomes :
         LET s == get_settings(organization_settings, db)
         IN /\ settings' = s
            /\ IF s = None
               THEN RaiseOut("ConfigurationNotFoundError")
               ELSE IF template[1].type = "email"
               THEN IF ~TruthyStr(req.recipient_email)
                    THEN RaiseOut("ValueError")
                    ELSE pc' = "get_config" /\ exc' = exc
               ELSE IF template[1].type = "whatsapp"
               THEN IF ~TruthySeq(req.recipient_phone)
                    THEN RaiseOut("ValueError")
                    ELSE pc' = "get_config" /\ exc' = exc
               ELSE RaiseOut("InvalidTemplateTypeError")
    /\ UNCHANGED << stores, phones, diags, clients, previews,
                    message_logs, req, template, config, result,
                    message_log, response, wire, calls, sendCount, callSends,
                    logsBefore, createCalls, createOutcome, createFailures,
                    transportOutcome >>

\* ConfigFetched with `if ..._config is None` in place of `if not ..._config`.
ConfigFetched_NoneCheckOnly ==
    /\ pc = "get_config"
    /\ \E db \in DbOutcomes :
         LET channel_config ==
               IF template[1].type = "email"
               THEN get_email_config(organization_settings, db)
               ELSE get_whatsapp_config(organization_settings, db)
             typed == IF template[1].type = "email"
                      THEN SMTPConfig(channel_config[1])
                      ELSE WhatsAppConfig(channel_config[1])
         IN IF channel_config = None
            THEN RaiseOut("ConfigurationNotFoundError") /\ config' = config
            ELSE IF IsRaise(typed)
            THEN RaiseOut(typed.raise) /\ config' = config
            ELSE pc' = "send" /\ exc' = exc /\ config' = Some(typed.val)
    /\ UNCHANGED << stores, phones, diags, clients, previews,
                    message_logs, req, template, settings, result,
                    message_log, response, wire, calls, sendCount, callSends,
                    logsBefore, createCalls, createOutcome, createFailures,
                    transportOutcome >>

\* get_email_config / get_whatsapp_config returns; `if not ..._config:
\* raise`; then SMTPConfig(**email_config) / WhatsAppConfig(**...).
ConfigFetched ==
    /\ pc = "get_config"
    /\ \E db \in DbOutcomes :
         LET channel_config ==
               IF template[1].type = "email"
               THEN get_email_config(organization_settings, db)
               ELSE get_whatsapp_config(organization_settings, db)
             typed == IF template[1].type = "email"
                      THEN SMTPConfig(channel_config[1])
                      ELSE WhatsAppConfig(channel_config[1])
         IN IF ~TruthyDict(channel_config)
            THEN RaiseOut("ConfigurationNotFoundError") /\ config' = config
            ELSE IF IsRaise(typed)
            THEN RaiseOut(typed.raise) /\ config' = config
            ELSE pc' = "send" /\ exc' = exc /\ config' = Some(typed.val)
    /\ UNCHANGED << stores, phones, diags, clients, previews,
                    message_logs, req, template, settings, result,
                    message_log, response, wire, calls, sendCount, callSends,
                    logsBefore, createCalls, createOutcome, createFailures,
                    transportOutcome >>

\* message_log with sent_at set whatever the transport reported.
BuildMessageLog_AlwaysSentAt(r, t, res) ==
    [template_id |-> r.template_id,
     recipient_email |-> r.recipient_email,
     recipient_phone |-> r.recipient_phone,
     type |-> t.type,
     subject |-> t.subject,
     content |-> t.content,
     variables_used |-> r.variables,
     status |-> Get(res, "status", "MessageStatus.FAILED"),
     error_message |-> IF "error" \in DOMAIN res THEN Some(res["error"])
                       ELSE None,
     sent_at |-> Some("now")]

\* The message_log dict built from the transport result.
BuildMessageLog(r, t, res) ==
    [template_id |-> r.template_id,
     recipient_email |-> r.recipient_email,
     recipient_phone |-> r.recipient_phone,
     type |-> t.type,
     subject |-> t.subject,
     content |-> t.content,
     variables_used |-> r.variables,
     status |-> Get(res, "status", "MessageStatus.FAILED"),
     error_message |-> IF "error" \in DOMAIN res THEN Some(res["error"])
                       ELSE None,
     sent_at |-> IF Get(res, "success", FALSE) THEN Some("now") ELSE None]

\* execute that calls the transport a second time when the first result is a
\* failure.
TransportSend_RetryOnFailure ==
    /\ pc = "send"
    /\ \E o \in (IF template[1].type = "email" THEN SmtpOutcomes
                 ELSE HttpOutcomes) :
         LET t == template[1]
             sent ==
               IF t.type = "email"
               THEN EmailAdapter_send(req.recipient_email[1], t.content,
                       IF TruthySeq(t.subject) THEN t.subject
                       ELSE Some(DefaultSubject),
                       req.variables, config[1], o)
               ELSE WhatsAppAdapter_send(req.recipient_phone[1], t.content,
                       None, req.variables, config[1], o)
         IN /\ wire' = sent.wire
            /\ transportOutcome' = o
            /\ result' = Some(sent.result.val)
            /\ message_log' = Some(BuildMessageLog(req, t, sent.result.val))
            /\ pc' = IF ~sent.result.val.success /\ callSends = 0
                     THEN "send" ELSE "log"
            /\ exc' = exc
    /\ sendCount' = sendCount + 1
    /\ callSends' = callSends + 1
    /\ UNCHANGED << stores, phones, diags, clients, previews, message_logs, req, template,
                    settings, config, response, calls, logsBefore,
                    createCalls, createOutcome, createFailures >>

\* email_sender.send / whatsapp_sender.send runs and returns; the
\* message_log dict is built and the log store create starts.
TransportSend ==
    /\ pc = "send"
    /\ \E o \in (IF template[1].type = "email" THEN SmtpOutcomes
                 ELSE HttpOutcomes) :
         LET t == template[1]
             sent ==
               IF t.type = "email"
               THEN EmailAdapter_send(req.recipient_email[1], t.content,
                       IF TruthySeq(t.subject) THEN t.subject
                       ELSE Some(DefaultSubject),
                       req.variables, config[1], o)
               ELSE WhatsAppAdapter_send(req.recipient_phone[1], t.content,
                       None, req.variables, config[1], o)
         IN /\ wire' = sent.wire
            /\ transportOutcome' = o
            /\ IF IsRaise(sent.result)
               THEN /\ RaiseOut(sent.result.raise)
                    /\ UNCHANGED << result, message_log >>
               ELSE /\ result' = Some(sent.result.val)
                    /\ message_log' =
                         Some(BuildMessageLog(req, t, sent.result.val))
                    /\ pc' = "log"
                    /\ exc' = exc
    /\ sendCount' = sendCount + 1
    /\ callSends' = callSends + 1
    /\ UNCHANGED << stores, phones, diags, clients, previews,
                    message_logs, req, template, settings, config,
                    response, calls, logsBefore, createCalls, createOutcome,
                    createFailures >>

\* execute that writes a log row as soon as the configuration is read, before
\* the transport is called.
LogCreate_BeforeSend ==
    /\ pc = "send"
    /\ createCalls = 0
    /\ message_logs' = Append(message_logs,
           BuildMessageLog(req, template[1],
                           [success |-> FALSE, status |-> MessageStatus_FAILED]))
    /\ createCalls' = createCalls + 1
    /\ createOutcome' = "ok"
    /\ UNCHANGED << stores, phones, diags, clients, previews, pc, exc, createFailures, req,
                    template, settings, config, result, message_log,
                    response, wire, calls, sendCount, callSends, logsBefore,
                    transportOutcome >>

\* execute that writes the log only when the transport reported success.
LogCreate_OnlyOnSuccess ==
    /\ pc = "log"
    /\ IF Get(result[1], "success", FALSE)
       THEN \E o \in CreateOutcomes :
              LET c == MessageLog_create(message_logs, message_log[1], o)
              IN /\ message_logs' = c.table
                 /\ createOutcome' = o
                 /\ createFailures' = IF o = "insert_error"
                                      THEN createFailures + 1
                                      ELSE createFailures
                 /\ createCalls' = createCalls + 1
                 /\ IF IsRaise(c.out)
                    THEN RaiseOut(c.out.raise)
                    ELSE pc' = "returned" /\ exc' = exc
       ELSE /\ pc' = "returned"
            /\ UNCHANGED << message_logs, createOutcome, createFailures,
                            createCalls, exc >>
    /\ UNCHANGED << stores, phones, diags, clients, previews,
                    req, template, settings, config, result,
                    message_log, response, wire, calls, sendCount, callSends,
                    logsBefore, transportOutcome >>

\* message_log_repository.create runs; execute returns its dict, or the
\* exception of create propagates.
LogCreate ==
    /\ pc = "log"
    /\ \E o \in CreateOutcomes :
         LET c == MessageLog_create(message_logs, message_log[1], o)
         IN /\ message_logs' = c.table
            /\ createOutcome' = o
            /\ createFailures' = IF o = "insert_error"
                                 THEN createFailures + 1 ELSE createFailures
            /\ IF IsRaise(c.out)
               THEN RaiseOut(c.out.raise)
               ELSE pc' = "returned" /\ exc' = exc
    /\ createCalls' = createCalls + 1
    /\ UNCHANGED << stores, phones, diags, clients, previews,
                    req, template, settings, config, result,
                    message_log, response, wire, calls, sendCount, callSends,
                    logsBefore, transportOutcome >>

\* send_message (interfaces/api): the MessageResponse built from the dict
\* execute returned, or the HTTPException of the matching except clause.
\* The request is over: the locals of execute are gone.
Respond ==
    /\ pc \in {"returned", "raised"}
    /\ response' =
         IF pc = "returned"
         THEN [handler |-> "ok", status_code |-> 200,
               success |-> Get(result[1], "success", FALSE)]
         ELSE [handler |-> send_message_handler(exc).handler,
               status_code |-> send_message_handler(exc).status_code,
               success |-> FALSE]
    /\ pc' = "idle"
    /\ req' = NoRequest
    /\ template' = None
    /\ settings' = None
    /\ config' = None
    /\ result' = None
    /\ message_log' = None
    /\ wire' = None
    /\ UNCHANGED << stores, phones, diags, clients, previews,
                    message_logs, exc, calls, sendCount, callSends,
                    logsBefore, createCalls, createOutcome, createFailures,
                    transportOutcome >>

Next ==
    \/ Execute
    \/ TemplateFetched
    \/ SettingsFetched
    \/ ConfigFetched
    \/ TransportSend
    \/ LogCreate
    \/ Respond

Spec == Init /\ [][Next]_vars

\* ------------------------------------------- a log table with earlier rows
\* the row an earlier email send to ana@example.org left in message_logs
ExistingLogRow ==
    MessageLog_create(<< >>,
        BuildMessageLog([template_id |-> "t_email",
                         recipient_email |-> Some("ana@example.org"),
                         recipient_phone |-> None,
                         variables |-> [name |-> "Ana"]],
                        TemplateRows["t_email"],
                        [success |-> TRUE, status |-> MessageStatus_SENT]),
        "ok").table[1]

\* the service starts against a log table that may already hold a row
InitLogs ==
    /\ message_templates = TemplateRows
    /\ organization_settings \in SettingsTables
    /\ message_logs \in { << >>, << ExistingLogRow >> }
    /\ InitRequest
    /\ phone = << >>
    /\ adapter_phone = None
    /\ service_phone = None

SpecLogs == InitLogs /\ [][Next]_vars

\* ------------------------------------------------------- preview-template
\* preview_template that also records the preview in the log table.
PreviewTemplate_WritesLog ==
    /\ pc = "idle"
    /\ Len(previews) < MaxPreviews
    /\ UNCHANGED << stores, phones, diags, clients, pc, req, template, settings, config,
                    result, message_log, exc, response, wire, calls,
                    sendCount, callSends, logsBefore, createCalls,
                    createOutcome, createFailures, transportOutcome >>
    /\ \E template_id \in TemplateIds, variables \in VariableSets,
          db \in DbOutcomes :
         LET r == PreviewTemplateUseCase_execute(message_templates,
                                                 template_id, variables, db)
         IN /\ message_logs' = Append(message_logs,
                                      [template_id |-> template_id])
            /\ previews' = Append(previews,
              [template_id |-> template_id,
               variables |-> IF variables = None THEN EmptyDict
                             ELSE variables[1],
               db |-> db,
               out |-> r,
               status_code |-> IF IsRaise(r)
                               THEN preview_template_handler(r.raise)
                               ELSE 200,
               logs_before |-> Len(message_logs),
               logs_after |-> Len(message_logs'),
               sends_before |-> sendCount,
               sends_after |-> sendCount'])

\* preview_template (interfaces/api) answers one request: the use case runs
\* and its dict becomes a TemplatePreviewResponse, or the exception it raised
\* becomes an HTTPException.  Each answer is recorded with the size of the
\* log table and the number of transport sends before and after it.
PreviewTemplate ==
    /\ pc = "idle"
    /\ Len(previews) < MaxPreviews
    /\ UNCHANGED << stores, phones, diags, clients, message_logs, pc, req, template, settings,
                    config, result, message_log, exc, response, wire, calls,
                    sendCount, callSends, logsBefore, createCalls,
                    createOutcome, createFailures, transportOutcome >>
    /\ \E template_id \in TemplateIds, variables \in VariableSets,
          db \in DbOutcomes :
         LET r == PreviewTemplateUseCase_execute(message_templates,
                                                 template_id, variables, db)
         IN previews' = Append(previews,
              [template_id |-> template_id,
               variables |-> IF variables = None THEN EmptyDict
                             ELSE variables[1],
               db |-> db,
               out |-> r,
               status_code |-> IF IsRaise(r)
                               THEN preview_template_handler(r.raise)
                               ELSE 200,
               logs_before |-> Len(message_logs),
               logs_after |-> Len(message_logs'),
               sends_before |-> sendCount,
               sends_after |-> sendCount'])

NextPreview == PreviewTemplate

SpecPreview == Init /\ [][NextPreview]_vars

\* --------------------------------------------------- phone number formatting
\* digit strings over two digits, up to MaxDigits long
RECURSIVE DigitStrings(_)
DigitStrings(n) ==
    IF n = 0 THEN { << >> }
    ELSE LET shorter == DigitStrings(n - 1)
         IN shorter \cup { Append(d, c) : d \in { x \in shorter : Len(x) = n - 1 },
                                          c \in {"1", "5"} }

\* ways a number is typed: bare, +N, NNN-N, (N)
PhoneStyles == {"bare", "plus", "dash", "paren"}

Typed(d, style) ==
    CASE style = "plus" -> << "+" >> \o d
      [] style = "dash" /\ Len(d) >= 3 ->
           SubSeq(d, 1, 3) \o << "-" >> \o SubSeq(d, 4, Len(d))
      [] style = "paren" -> << "(" >> \o d \o << ")" >>
      [] OTHER -> d

Phone5551234567 == << "5", "5", "5", "1", "2", "3", "4", "5", "6", "7" >>

PhoneInputs ==
    { Typed(d, s) : d \in DigitStrings(MaxDigits), s \in PhoneStyles }
      \cup { Phone5551234567, << "1" >> \o Phone5551234567,
              << "1", "2", "3" >>, TenDigits }

InitPhone ==
    /\ message_templates = TemplateRows
    /\ organization_settings = << >>
    /\ message_logs = << >>
    /\ InitRequest
    /\ phone \in PhoneInputs
    /\ adapter_phone = None
    /\ service_phone = None

\* WhatsAppAdapter._format_phone_number is called with the number
AdapterFormatPhone ==
    /\ adapter_phone = None
    /\ adapter_phone' = Some(_format_phone_number(phone))
    /\ UNCHANGED << stores, message_logs, pc, req, template, settings, config,
                    result, message_log, exc, response, wire, calls,
                    sendCount, callSends, logsBefore, createCalls,
                    createOutcome, createFailures, transportOutcome,
                    previews, phone, service_phone, diags, clients >>

\* WhatsAppService._format_phone_number is called with the number
ServiceFormatPhone ==
    /\ service_phone = None
    /\ service_phone' = Some(WhatsAppService_format_phone_number(phone))
    /\ UNCHANGED << stores, message_logs, pc, req, template, settings, config,
                    result, message_log, exc, response, wire, calls,
                    sendCount, callSends, logsBefore, createCalls,
                    createOutcome, createFailures, transportOutcome,
                    previews, phone, adapter_phone, diags, clients >>

NextPhone == AdapterFormatPhone \/ ServiceFormatPhone

SpecPhone == InitPhone /\ [][NextPhone]_vars

\* ---------------------------------------------- test-email, test-whatsapp
MessageResponse(success, message, data) ==
    [success |-> success, message |-> message, data |-> data]

TestEmailContent == << Lit("SMTP Test Successful!") >>

TestEmailSubject == << Lit("JCI Connect - SMTP Test") >>

TestWhatsAppContent == << Lit("JCI Connect - WhatsApp Test") >>

\* The try block of test_email_connection: the MessageResponse returned or
\* the class raised, with the result of the connection check and of the test
\* send when they ran.
test_email_try(table, test_email, db, conn, smtp) ==
    LET email_config_data == get_email_config(table, db)
        smtp_config == SMTPConfig(email_config_data[1])
        connection_result ==
            EmailAdapter_test_connection(smtp_config.val, conn)
        sent == EmailAdapter_send(test_email, TestEmailContent,
                                  Some(TestEmailSubject), EmptyDict,
                                  smtp_config.val, smtp)
        test_result == sent.result.val
    IN IF ~TruthyDict(email_config_data)
       THEN [out |-> Ok(MessageResponse(FALSE,
                         "Email configuration not found in database",
                         [error |-> "No email configuration found"])),
             connection |-> None, send |-> None]
       ELSE IF IsRaise(smtp_config)
       THEN [out |-> smtp_config, connection |-> None, send |-> None]
       ELSE IF ~Get(connection_result, "success", FALSE)
       THEN [out |-> Ok(MessageResponse(FALSE,
                         "SMTP connection test failed", connection_result)),
             connection |-> Some(connection_result), send |-> None]
       ELSE IF IsRaise(sent.result)
       THEN [out |-> sent.result,
             connection |-> Some(connection_result), send |-> None]
       ELSE [out |-> Ok(MessageResponse(
                         Get(test_result, "success", FALSE),
                         Get(test_result, "message", "Email test completed"),
                         [connection_test |-> connection_result,
                          email_test |-> test_result])),
             connection |-> Some(connection_result),
             send |-> Some(test_result)]

\* test_email_connection without its `except Exception` handler.
test_email_connection_NoHandler(table, test_email, db, conn, smtp) ==
    LET t == test_email_try(table, test_email, db, conn, smtp)
    IN [endpoint |-> "test-email",
        response |-> IF IsRaise(t.out) THEN None ELSE Some(t.out.val),
        fault |-> t.out.raise,
        connection |-> t.connection,
        send |-> t.send]

\* test_email_connection: the try block and its `except Exception` handler;
\* fault is the class of an exception that leaves the endpoint.
test_email_connection(table, test_email, db, conn, smtp) ==
    LET t == test_email_try(table, test_email, db, conn, smtp)
    IN [endpoint |-> "test-email",
        response |->
          IF ~IsRaise(t.out) THEN Some(t.out.val)
          ELSE IF IsInstance(t.out.raise, "Exception")
          THEN Some(MessageResponse(FALSE, "Email test failed",
                                    [error |-> t.out.raise]))
          ELSE None,
        fault |-> IF IsRaise(t.out) /\ ~IsInstance(t.out.raise, "Exception")
                  THEN t.out.raise ELSE "",
        connection |-> t.connection,
        send |-> t.send]

\* The try block of test_whatsapp_connection.
test_whatsapp_try(table, test_phone, db, conn, http) ==
    LET whatsapp_config_data == get_whatsapp_config(table, db)
        wa_config == WhatsAppConfig(whatsapp_config_data[1])
        connection_result ==
            WhatsAppAdapter_test_connection(wa_config.val, conn)
        sent == WhatsAppAdapter_send(test_phone, TestWhatsAppContent, None,
                                     EmptyDict, wa_config.val, http)
        test_result == sent.result.val
    IN IF ~TruthyDict(whatsapp_config_data)
       THEN [out |-> Ok(MessageResponse(FALSE,
                         "WhatsApp configuration not found in database",
                         [error |-> "No WhatsApp configuration found"])),
             connection |-> None, send |-> None]
       ELSE IF IsRaise(wa_config)
       THEN [out |-> wa_config, connection |-> None, send |-> None]
       ELSE IF ~Get(connection_result, "success", FALSE)
       THEN [out |-> Ok(MessageResponse(FALSE,
                         "WhatsApp connection test failed",
                         connection_result)),
             connection |-> Some(connection_result), send |-> None]
       ELSE IF IsRaise(sent.result)
       THEN [out |-> sent.result,
             connection |-> Some(connection_result), send |-> None]
       ELSE [out |-> Ok(MessageResponse(
                         Get(test_result, "success", FALSE),
                         Get(test_result, "message",
                             "WhatsApp test completed"),
                         [connection_test |-> connection_result,
                          message_test |-> test_result])),
             connection |-> Some(connection_result),
             send |-> Some(test_result)]

\* test_whatsapp_connection: the try block and its handler.
test_whatsapp_connection(table, test_phone, db, conn, http) ==
    LET t == test_whatsapp_try(table, test_phone, db, conn, http)
    IN [endpoint |-> "test-whatsapp",
        response |->
          IF ~IsRaise(t.out) THEN Some(t.out.val)
          ELSE IF IsInstance(t.out.raise, "Exception")
          THEN Some(MessageResponse(FALSE, "WhatsApp test failed",
                                    [error |-> t.out.raise]))
          ELSE None,
        fault |-> IF IsRaise(t.out) /\ ~IsInstance(t.out.raise, "Exception")
                  THEN t.out.raise ELSE "",
        connection |-> t.connection,
        send |-> t.send]

\* everything a diagnostic request leaves alone
sendState ==
    << message_logs, pc, req, template, settings, config, result,
       message_log, exc, response, wire, calls, sendCount, callSends,
       logsBefore, createCalls, createOutcome, createFailures,
       transportOutcome >>

\* POST /test-email is answered
TestEmail ==
    /\ Len(diag) < MaxDiagCalls
    /\ \E db \in DbOutcomes, conn \in SmtpConnectOutcomes,
          smtp \in SmtpOutcomes :
         diag' = Append(diag,
                    test_email_connection(organization_settings,
                        "ana@example.org", db, conn, smtp))
    /\ UNCHANGED << stores, phones, previews, clients, sendState >>

\* POST /test-whatsapp is answered
TestWhatsApp ==
    /\ Len(diag) < MaxDiagCalls
    /\ \E db \in DbOutcomes, conn \in StatusOutcomes, http \in HttpOutcomes,
          test_phone \in { << "1", "2", "3" >>, TenDigits } :
         diag' = Append(diag,
                    test_whatsapp_connection(organization_settings,
                        test_phone, db, conn, http))
    /\ UNCHANGED << stores, phones, previews, clients, sendState >>

NextDiag == TestEmail \/ TestWhatsApp

SpecDiag == Init /\ [][NextDiag]_vars

\* ------------------------------------------------------ get_supabase_client
\* Outcomes of create_client
CreateClientOutcomes == {"ok", "error"}

\* thread t enters get_supabase_client and evaluates
\* `if _supabase_client is None`
ClientCheck(t) ==
    /\ clientPc[t] = "idle"
    /\ clientCalls[t] < MaxClientCalls
    /\ clientCalls' = [clientCalls EXCEPT ![t] = @ + 1]
    /\ clientPc' = [clientPc EXCEPT ![t] =
                      IF _supabase_client = None THEN "create" ELSE "return"]
    /\ UNCHANGED << _supabase_client, created, handedOut >>
    /\ UNCHANGED << stores, phones, previews, diags, sendState >>

\* thread t runs create_client and assigns the global, or create_client
\* raises and the exception leaves the function (`raise`)
ClientCreate(t) ==
    /\ clientPc[t] = "create"
    /\ \E o \in CreateClientOutcomes :
         IF o = "ok"
         THEN /\ created' = created + 1
              /\ _supabase_client' = Some(created + 1)
              /\ clientPc' = [clientPc EXCEPT ![t] = "return"]
         ELSE /\ clientPc' = [clientPc EXCEPT ![t] = "idle"]
              /\ UNCHANGED << _supabase_client, created >>
    /\ UNCHANGED << clientCalls, handedOut >>
    /\ UNCHANGED << stores, phones, previews, diags, sendState >>

\* thread t executes `return _supabase_client`
ClientReturn(t) ==
    /\ clientPc[t] = "return"
    /\ handedOut' = handedOut \cup { _supabase_client[1] }
    /\ clientPc' = [clientPc EXCEPT ![t] = "idle"]
    /\ UNCHANGED << _supabase_client, created, clientCalls >>
    /\ UNCHANGED << stores, phones, previews, diags, sendState >>

NextClient ==
    \E t \in Threads : ClientCheck(t) \/ ClientCreate(t) \/ ClientReturn(t)

SpecClient == Init /\ [][NextClient]_vars

\* ================================================================ claims
CallEnded == pc \in {"returned", "raised"}

\* a row was inserted into message_logs by the current call
RowWritten == CallEnded /\ Len(message_logs) = logsBefore + 1

LastRow == message_logs[Len(message_logs)]

ResultSuccess == result /= None /\ Get(result[1], "success", FALSE)

\* the required recipient of the fetched template's channel is empty or absent
RecipientMissing ==
    /\ template /= None
    /\ IF template[1].type = "email" THEN ~TruthyStr(req.recipient_email)
       ELSE ~TruthySeq(req.recipient_phone)

\* the stored configuration of the fetched template's channel is empty or
\* absent (no settings row, a null column, or an empty mapping)
ChannelConfigMissing ==
    /\ template /= None
    /\ \/ Len(organization_settings) = 0
       \/ ~TruthyDict(IF template[1].type = "email"
                      THEN organization_settings[1].email_config
                      ELSE organization_settings[1].whatsapp_config)

\* C1: whenever execute returns after the channel transport's send was
\* invoked, the log store's create ran exactly once in that call and exactly
\* one MessageLog row was persisted, whether the transport reported success
\* or failure.
C1_OneLogPerReturnedSend ==
    (pc = "returned" /\ callSends >= 1)
        => /\ createCalls = 1
           /\ Len(message_logs) = logsBefore + 1
           /\ callSends = 1

C1_Witness ==
    /\ pc = "returned"
    /\ callSends = 1
    /\ ~ResultSuccess
    /\ Len(message_logs) = logsBefore + 1

\* C2 (as stated): after any sequence of execute calls the number of transport
\* send invocations equals the number of log entries.
C2_Original == pc = "idle" => sendCount = Len(message_logs)

\* C2 (amended): after any sequence of execute calls the number of log entries
\* equals the number of transport send invocations less the number of log
\* inserts that raised; a call rejected before the transport adds no entry.
C2_LogsEqualSendsLessFailedInserts ==
    pc = "idle" => /\ Len(message_logs) = sendCount - createFailures
                   /\ Len(message_logs) <= sendCount

C2_Witness ==
    /\ pc = "idle"
    /\ sendCount >= 1
    /\ createFailures >= 1
    /\ Len(message_logs) = sendCount - createFailures

\* C3: the MessageLog row written for a transport result with success = true
\* has status sent and sent_at set; the row written for a result with
\* success = false has status failed and sent_at null; in every stored row
\* sent_at is set exactly when the status is sent.
C3_SentAtIffSuccess ==
    /\ RowWritten =>
         IF ResultSuccess
         THEN LastRow.status = MessageStatus_SENT /\ LastRow.sent_at /= None
         ELSE LastRow.status = MessageStatus_FAILED /\ LastRow.sent_at = None
    /\ \A i \in 1..Len(message_logs) :
         /\ message_logs[i].status \in {MessageStatus_SENT, MessageStatus_FAILED}
         /\ (message_logs[i].sent_at /= None)
              <=> (message_logs[i].status = MessageStatus_SENT)

C3_Witness ==
    /\ RowWritten
    /\ ResultSuccess
    /\ LastRow.status = MessageStatus_SENT
    /\ LastRow.sent_at /= None

\* C4 (as stated): the content of the MessageLog row written by execute is the
\* rendered body, the text after variable substitution that was handed to
\* the provider, not the template text.
C4_Original ==
    (RowWritten /\ wire /= None) => LastRow.content = wire[1].body

\* C5 (as stated): when the log store's create raises after the transport has
\* run, the endpoint answers with a failure whose kind is none of the
\* template-not-found, configuration, validation and transport-failure kinds.
C5_Original ==
    (pc = "idle" /\ createOutcome \in {"insert_error", "row_error"})
        => /\ ~response.success
           /\ response.handler \notin {"domain", "validation", "send_error"}

\* C6: the transport's send never raises: once it has been invoked execute
\* holds a result dict; its status is sent or failed, agreeing with success,
\* and it is success = false with status failed whenever no provider call
\* was attempted (incomplete config, render failure, malformed phone) or the
\* provider call failed (SMTP error, network error, non-200, unparsable body).
C6_TransportNeverRaises ==
    (callSends >= 1 /\ pc /= "idle") =>
        /\ result /= None
        /\ result[1].status \in {MessageStatus_SENT, MessageStatus_FAILED}
        /\ result[1].success <=> (result[1].status = MessageStatus_SENT)
        /\ (wire = None \/ transportOutcome \notin {"ok", "200"})
             => (~result[1].success /\ result[1].status = MessageStatus_FAILED)

C6_Witness ==
    /\ pc = "log"
    /\ callSends = 1
    /\ wire = None
    /\ Get(result[1], "error", "") = "ValueError"
    /\ ~result[1].success

\* C7 (as stated): when the stored configuration of the template's channel is
\* empty or absent, execute fails with ConfigurationNotFoundError and no
\* transport send is invoked.
C7_Original ==
    (CallEnded /\ ChannelConfigMissing)
        => (exc = "ConfigurationNotFoundError" /\ callSends = 0)

\* C7 (amended): when the stored configuration of the template's channel is
\* empty or absent, execute fails and no transport send is invoked; the error
\* is ConfigurationNotFoundError, except that when the settings record was
\* read and the recipient the channel requires is empty or absent the
\* recipient check fails first with ValueError.
C7_ConfigMissingNoTransport ==
    (CallEnded /\ ChannelConfigMissing)
        => /\ pc = "raised"
           /\ callSends = 0
           /\ exc = IF settings /= None /\ RecipientMissing
                    THEN "ValueError" ELSE "ConfigurationNotFoundError"

C7_Witness ==
    /\ pc = "raised"
    /\ ChannelConfigMissing
    /\ settings /= None
    /\ ~RecipientMissing
    /\ exc = "ConfigurationNotFoundError"
    /\ callSends = 0

\* C8 (as stated): for every email template and every state of the settings
\* store, execute with an empty or absent recipient_email fails with the
\* validation error, invokes no transport and writes no log entry with status
\* sent (and likewise a whatsapp template with an empty recipient_phone).
C8_Original ==
    (CallEnded /\ RecipientMissing)
        => /\ exc = "ValueError"
           /\ callSends = 0
           /\ \A i \in 1..Len(message_logs) :
                i > logsBefore => message_logs[i].status /= MessageStatus_SENT

\* C9 (as stated): a stored template whose type is neither email nor whatsapp
\* makes execute fail with InvalidTemplateTypeError, with no transport send.
C9_Original ==
    (/\ CallEnded
     /\ req.template_id \in DOMAIN message_templates
     /\ message_templates[req.template_id].type \notin TemplateTypeValues)
        => (exc = "InvalidTemplateTypeError" /\ callSends = 0)

\* C10: execute with a template id the template store does not hold fails
\* with TemplateNotFoundError before the settings are read: no transport send
\* is invoked and no log entry is written.
C10_MissingTemplateNotFound ==
    (pc /= "idle" /\ pc /= "get_template"
     /\ req.template_id \notin DOMAIN message_templates)
        => /\ pc = "raised"
           /\ exc = "TemplateNotFoundError"
           /\ settings = None
           /\ callSends = 0
           /\ createCalls = 0
           /\ Len(message_logs) = logsBefore

C10_Witness ==
    /\ pc = "raised"
    /\ req.template_id \notin DOMAIN message_templates
    /\ exc = "TemplateNotFoundError"
    /\ callSends = 0
    /\ Len(message_logs) = logsBefore

\* a required field of the typed channel configuration is empty
ConfigFieldEmpty ==
    /\ config /= None
    /\ \E f \in (IF template[1].type = "email" THEN SMTPRequired
                  ELSE WhatsAppRequired) : config[1][f] = ""

\* C11 (as stated): a send whose channel configuration has an empty required
\* field (email: host, username, password, from_email, from_name; whatsapp:
\* api_url, api_key, instance_name) makes no SMTP or HTTP call.
C11_Original ==
    (callSends >= 1 /\ pc /= "idle" /\ ConfigFieldEmpty) => wire = None

\* two preview requests were given the same template id and variables and the
\* template store answered both reads alike
SamePreviewInputs(i, j) ==
    /\ previews[i].template_id = previews[j].template_id
    /\ previews[i].variables = previews[j].variables
    /\ previews[i].db = previews[j].db

C13_Original ==
    \A i \in 1..Len(previews) :
        ~IsRaise(previews[i].out) =>
            LET row == message_templates[previews[i].template_id]
            IN IF row.type /= "email"
               THEN previews[i].out.val.subject = None
               ELSE previews[i].out.val.subject
                      = IF TruthySeq(row.subject)
                        THEN Some(render_template(row.subject[1],
                                       previews[i].variables).val)
                        ELSE None

\* the reference rule: strip the non-digits; 10 digits get "1" in front; 11
\* digits starting with "1" stay; fewer than 10 digits is an error; any other
\* digit string is returned as it is
ReferencePhone(p) ==
    LET d == SelectSeq(p, LAMBDA c : c \in Digits)
        n == Len(d)
    IN IF n < 10 THEN Raise("ValueError")
       ELSE IF n = 10 THEN Ok(<< "1" >> \o d)
       ELSE Ok(d)

\* C14: for every phone string the adapter's and the service's
\* _format_phone_number give what the reference rule gives, an error for
\* fewer than 10 digits included; "5551234567" becomes "15551234567",
\* "15551234567" stays, "123" is an error.
C14_PhoneMatchesReference ==
    /\ adapter_phone /= None => adapter_phone[1] = ReferencePhone(phone)
    /\ service_phone /= None => service_phone[1] = ReferencePhone(phone)
    /\ (adapter_phone /= None /\ phone = Phone5551234567)
          => adapter_phone[1] = Ok(<< "1" >> \o Phone5551234567)
    /\ (adapter_phone /= None /\ phone = << "1" >> \o Phone5551234567)
          => adapter_phone[1] = Ok(phone)
    /\ (adapter_phone /= None /\ phone = << "1", "2", "3" >>)
          => IsRaise(adapter_phone[1])

C14_Witness ==
    /\ Len(SelectSeq(phone, IsDigit)) = 10
    /\ Len(phone) > 10
    /\ adapter_phone /= None
    /\ service_phone /= None
    /\ adapter_phone[1] = Ok(<< "1" >> \o SelectSeq(phone, IsDigit))

\* the WhatsApp transport ran for a recipient with fewer than 10 digits
ShortPhoneSend ==
    /\ callSends >= 1
    /\ pc /= "idle"
    /\ template[1].type = "whatsapp"
    /\ Len(SelectSeq(req.recipient_phone[1], IsDigit)) < 10

\* C15: a WhatsApp send to a recipient with fewer than 10 digits makes no HTTP
\* POST to the provider and ends as a failed result; when the configuration
\* passed the guard that precedes the normalization, the error is the
\* ValueError "Invalid phone number format" of _format_phone_number.
C15_ShortPhoneNoPost ==
    ShortPhoneSend =>
        /\ wire = None
        /\ ~result[1].success
        /\ result[1].status = MessageStatus_FAILED
        /\ ~ConfigFieldEmpty => result[1].error = "ValueError"

C15_Witness ==
    /\ ShortPhoneSend
    /\ ~ConfigFieldEmpty
    /\ req.recipient_phone = Some(<< "1", "2", "3" >>)
    /\ wire = None
    /\ result[1].error = "ValueError"

SyncStatuses == {MessageStatus_SENT, MessageStatus_FAILED}

\* C16: the transport result held by execute, the message_log it builds and
\* every row of the log table have status sent or failed, never delivered or
\* pending, whatever the provider did.
C16_StatusSentOrFailed ==
    /\ result /= None => result[1].status \in SyncStatuses
    /\ message_log /= None => message_log[1].status \in SyncStatuses
    /\ \A i \in 1..Len(message_logs) :
         message_logs[i].status \in SyncStatuses

C16_Witness ==
    /\ RowWritten
    /\ template[1].type = "whatsapp"
    /\ transportOutcome = "200"
    /\ wire /= None
    /\ LastRow.status = MessageStatus_SENT

\* C17 (as stated): every row of the log table has exactly one of
\* recipient_email / recipient_phone populated, the one of the row's channel,
\* whatever recipient arguments the caller gave.
C17_Original ==
    \A i \in 1..Len(message_logs) :
        IF message_logs[i].type = "email"
        THEN /\ TruthyStr(message_logs[i].recipient_email)
             /\ ~TruthySeq(message_logs[i].recipient_phone)
        ELSE /\ TruthySeq(message_logs[i].recipient_phone)
             /\ ~TruthyStr(message_logs[i].recipient_email)

\* the status code the specification gives an error kind
SpecStatusCode(cls) ==
    IF cls = "TemplateNotFoundError" THEN 404
    ELSE IF \/ IsInstance(cls, "ValueError")
            \/ cls = "ConfigurationNotFoundError"
            \/ cls = "InvalidTemplateTypeError"
    THEN 400
    ELSE 500

\* C18 (as stated): the send-message endpoint answers template not found with
\* 404, a validation failure, a missing configuration and an invalid channel
\* with 400, a send failure and an unexpected error with 500.
C18_Original ==
    (pc = "idle" /\ calls >= 1 /\ response.handler \notin {"", "ok"})
        => response.status_code = SpecStatusCode(exc)

\* the text has a placeholder whose variable is not among those supplied
MissingVariable(text, variables) ==
    \E i \in 1..Len(text) : text[i].k = "var" /\ text[i].v \notin DOMAIN variables

\* the text has malformed placeholder syntax
Malformed(text) == \E i \in 1..Len(text) : text[i].k = "bad"

\* C19 (as stated): rendering a text that references a variable missing from
\* the supplied variables, or that has malformed placeholder syntax, fails
\* with a render error; no output with the placeholder blanked is returned.
C19_Original ==
    \A i \in 1..Len(previews) :
        LET t == get_by_id(message_templates, previews[i].template_id,
                           previews[i].db)
        IN (/\ t /= None
            /\ \/ MissingVariable(t[1].content, previews[i].variables)
               \/ Malformed(t[1].content))
              => /\ IsRaise(previews[i].out)
                 /\ previews[i].out.raise = "ValueError"

\* the text handed to the provider went through the renderer
WireRendered ==
    DOMAIN req.variables /= {}
        => \A i \in 1..Len(wire[1].body) : wire[1].body[i].k = "lit"

\* C20: within one execute call no step has run unless every earlier one has
\* completed: the settings are read only with the template in hand, the typed
\* configuration is built only after the settings were read, the transport is
\* invoked only with the configuration in hand and hands the provider only
\* rendered text, and the log store is written only after the transport
\* returned its result; each step runs at most once.
C20_StepsInOrder ==
    pc /= "idle" =>
        /\ settings /= None => template /= None
        /\ config /= None => settings /= None
        /\ callSends >= 1 => config /= None
        /\ wire /= None => (callSends >= 1 /\ WireRendered)
        /\ result /= None => callSends >= 1
        /\ createCalls >= 1 => (callSends >= 1 /\ result /= None)
        /\ Len(message_logs) > logsBefore => createCalls >= 1
        /\ callSends <= 1
        /\ createCalls <= 1
        /\ pc = "get_settings" => (template /= None /\ settings = None)
        /\ pc = "get_config" => (settings /= None /\ config = None)
        /\ pc = "send" => (config /= None /\ callSends = 0)
        /\ pc = "log" => (callSends = 1 /\ createCalls = 0)

C20_Witness ==
    /\ pc = "returned"
    /\ template /= None
    /\ config /= None
    /\ DOMAIN req.variables /= {}
    /\ wire /= None
    /\ createCalls = 1
    /\ Len(message_logs) = logsBefore + 1

\* C21: within one execute call the transport send runs at most once and the
\* log store create at most once; after a failed transport result the only
\* step left is the log write, and after a raised error the call is over:
\* nothing is sent or written again.
C21_NoRetries ==
    [][ /\ sendCount' > sendCount
            => (callSends = 0 /\ callSends' = 1 /\ sendCount' = sendCount + 1)
        /\ createCalls' > createCalls
            => (createCalls = 0 /\ createCalls' = 1 /\ callSends = 1)
        /\ Len(message_logs') > Len(message_logs)
            => (Len(message_logs) = logsBefore /\ createCalls = 0)
        /\ (pc = "log" /\ ~ResultSuccess)
            => (sendCount' = sendCount /\ pc' \in {"returned", "raised"})
        /\ pc = "raised"
            => (pc' = "idle" /\ UNCHANGED << message_logs, sendCount,
                                              callSends, createCalls >>)
      ]_vars

C21_Witness ==
    /\ pc = "returned"
    /\ wire /= None
    /\ ~ResultSuccess
    /\ callSends = 1
    /\ createCalls = 1
    /\ sendCount = 1

C23_DiagnosticsAlwaysAnswer ==
    \A i \in 1..Len(diag) :
        LET d == diag[i]
            data == d.response[1].data
            send_key == IF d.endpoint = "test-email" THEN "email_test"
                        ELSE "message_test"
        IN /\ d.fault = ""
           /\ d.response /= None
           /\ d.send /= None
                => /\ d.connection /= None
                   /\ data["connection_test"] = d.connection[1]
                   /\ data[send_key] = d.send[1]
                   /\ d.response[1].success = d.send[1].success
           /\ (d.send = None /\ d.connection /= None)
                => /\ data = d.connection[1]
                   /\ ~d.connection[1].success
                   /\ ~d.response[1].success
           /\ d.connection = None
                => /\ "error" \in DOMAIN data
                   /\ ~d.response[1].success

C23_Witness ==
    /\ Len(diag) = 2
    /\ diag[1].endpoint = "test-email"
    /\ diag[1].connection /= None
    /\ diag[1].send = None
    /\ diag[1].response[1].data = diag[1].connection[1]
    /\ diag[2].endpoint = "test-whatsapp"
    /\ diag[2].connection /= None
    /\ diag[2].send /= None
    /\ ~diag[2].send[1].success
    /\ diag[2].response[1].data["message_test"] = diag[2].send[1]

\* the WhatsApp transport made its POST in this call
WhatsAppPosted ==
    /\ pc \in {"log", "returned", "raised"}
    /\ callSends = 1
    /\ template[1].type = "whatsapp"
    /\ wire /= None

\* C24 (as stated): a WhatsApp send whose POST is answered with HTTP 200
\* returns success = true, status sent and the normalized phone as recipient;
\* any other status and any network error returns success = false, status
\* failed and an error text.
C24_Original ==
    WhatsAppPosted =>
        IF transportOutcome \in {"200", "200_not_json"}
        THEN /\ result[1].success
             /\ result[1].status = MessageStatus_SENT
             /\ result[1].recipient
                  = _format_phone_number(req.recipient_phone[1]).val
        ELSE /\ ~result[1].success
             /\ result[1].status = MessageStatus_FAILED
             /\ "error" \in DOMAIN result[1]

\* the email transport ran with a configuration whose host or username is empty
EmailGuardCase ==
    /\ callSends >= 1
    /\ pc /= "idle"
    /\ template[1].type = "email"
    /\ (config[1].host = "" \/ config[1].username = "")

\* C25: an email send with a configuration whose host or username is empty
\* returns at once success = false, status failed and the error "SMTP
\* configuration incomplete"; the template is not rendered (a malformed
\* template is not even noticed) and no SMTP connection is attempted.
C25_EmailGuardShortCircuits ==
    EmailGuardCase =>
        /\ wire = None
        /\ result[1] = [success |-> FALSE,
                        error |-> "SMTP configuration incomplete",
                        status |-> MessageStatus_FAILED]

C25_Witness ==
    /\ EmailGuardCase
    /\ config[1].host /= ""
    /\ Malformed(template[1].content)
    /\ DOMAIN req.variables /= {}
    /\ result[1].error = "SMTP configuration incomplete"
    /\ wire = None

\* C26 (as stated): over any interleaving of get_supabase_client calls of the
\* request threads, create_client returns a client at most once and every
\* caller is handed the same instance.
C26_Original ==
    /\ created <= 1
    /\ Cardinality(handedOut) <= 1

\* execute raised, and not out of the log store's create
RaisedBeforeTransport == pc = "raised" /\ createOutcome = ""

\* C27: when execute raises for a missing template, missing settings or
\* channel configuration, a missing recipient, a configuration mapping the
\* typed constructor rejects or an unsupported type, no transport send was
\* made, the log store's create was not called and the log table is as the
\* call found it.
C27_EarlyRaiseLeavesLog ==
    RaisedBeforeTransport =>
        /\ exc \in {"TemplateNotFoundError", "ConfigurationNotFoundError",
                     "ValueError", "ValidationError",
                     "InvalidTemplateTypeError"}
        /\ callSends = 0
        /\ wire = None
        /\ result = None
        /\ createCalls = 0
        /\ Len(message_logs) = logsBefore

C27_Witness ==
    /\ RaisedBeforeTransport
    /\ exc = "ValidationError"
    /\ callSends = 0
    /\ message_logs = << ExistingLogRow >>

\* C28: when the organization_settings table has no row, execute raises
\* ConfigurationNotFoundError for every template get_by_id returns, email or
\* whatsapp, with or without the recipient the channel requires; when no
\* template is returned it raises TemplateNotFoundError whatever the settings
\* and the recipients are.
C28_SettingsCheckFirst ==
    CallEnded =>
        /\ template = None
             => /\ pc = "raised"
                /\ exc = "TemplateNotFoundError"
                /\ settings = None
        /\ (template /= None /\ Len(organization_settings) = 0)
             => /\ pc = "raised"
                /\ exc = "ConfigurationNotFoundError"
                /\ config = None
                /\ callSends = 0

C28_Witness ==
    /\ pc = "raised"
    /\ template /= None
    /\ template[1].type = "whatsapp"
    /\ Len(organization_settings) = 0
    /\ RecipientMissing
    /\ exc = "ConfigurationNotFoundError"

\* a call for a whatsapp template with a non-empty recipient phone of fewer
\* than 10 digits has ended
ShortPhoneCallEnded ==
    /\ CallEnded
    /\ template /= None
    /\ template[1].type = "whatsapp"
    /\ TruthySeq(req.recipient_phone)
    /\ Len(SelectSeq(req.recipient_phone[1], IsDigit)) < 10

HasPlaceholder(text) == \E i \in 1..Len(text) : text[i].k = "var"

\* a call with an empty variable set has handed a message to the provider
EmptyVariablesSent ==
    /\ pc /= "idle"
    /\ wire /= None
    /\ DOMAIN req.variables = {}

\* what the preview use case returns for the inputs of the current call
PreviewOfCall ==
    PreviewTemplateUseCase_execute(message_templates, req.template_id,
                                   Some(req.variables), "ok")

\* C30: a send with an empty variable set hands the template content, and
\* for email the template subject (or the default one), to the provider
\* unchanged, placeholders and malformed syntax included, and is reported
\* like any send: the content logged is the template content and the status
\* follows the transport result.  The preview use case with the same inputs
\* runs the renderer: it raises on malformed syntax and otherwise returns
\* the content with every placeholder replaced.
C30_EmptyVariablesSkipRender ==
    EmptyVariablesSent =>
        /\ wire[1].body = template[1].content
        /\ template[1].type = "email"
             => wire[1].subject = IF TruthySeq(template[1].subject)
                                  THEN template[1].subject[1]
                                  ELSE DefaultSubject
        /\ pc = "returned"
             => /\ RowWritten
                /\ LastRow.content = template[1].content
                /\ LastRow.status = IF ResultSuccess THEN MessageStatus_SENT
                                    ELSE MessageStatus_FAILED
        /\ IF Malformed(template[1].content)
           THEN IsRaise(PreviewOfCall)
           ELSE /\ ~IsRaise(PreviewOfCall)
                /\ ~HasPlaceholder(PreviewOfCall.val.content)
                /\ HasPlaceholder(template[1].content)
                     => PreviewOfCall.val.content /= wire[1].body

C30_Witness ==
    /\ EmptyVariablesSent
    /\ pc = "returned"
    /\ ResultSuccess
    /\ template[1].type = "whatsapp"
    /\ HasPlaceholder(wire[1].body)
    /\ HasPlaceholder(LastRow.content)
    /\ ~IsRaise(PreviewOfCall)
    /\ ~HasPlaceholder(PreviewOfCall.val.content)

====
